---- MODULE Spec2Model ----
(***************************************************************************)
(* Model of the zoned Classroom simulation (src/src/environment/           *)
(* classroom.py) with its Child and Teacher agents (src/src/agents).       *)
(* The wall clock read by time.time() is the variable now, in seconds.     *)
(* Distances are compared through their squares, which orders them as      *)
(* Position.distance_to does.                                              *)
(***************************************************************************)
EXTENDS Integers, Sequences, FiniteSets, TLC

(* ------------------------------ bounds --------------------------------- *)
\* the clock stops advancing at MaxTime
MaxTime == 5
\* one call of update() lasts at most TickSpan seconds
TickSpan == 1

(* ------------------------- program constants --------------------------- *)
candy_spawn_interval == 3
MaxCandies == 5
CooldownDuration == 5

EMPTY == "EMPTY"
SAFE_ZONE == "SAFE_ZONE"
CANDY == "CANDY"
CHILD == "CHILD"
TEACHER == "TEACHER"
CellType == {EMPTY, SAFE_ZONE, CANDY, CHILD, TEACHER}

MovementStrategy ==
  {"RANDOM_WALK", "CANDY_SEEKER", "AVOIDANCE", "DIRECTIONAL_BIAS",
   "STRATEGIC_TIMING", "WALL_HUGGER", "GROUP_SEEKER", "CANDY_HOARDER",
   "SAFE_EXPLORER", "UNPREDICTABLE"}

(* ------------------------------ Position ------------------------------- *)
Position(px, py) == [x |-> px, y |-> py]

\* square of Position.distance_to
Dist2(p, q) == (p.x - q.x) * (p.x - q.x) + (p.y - q.y) * (p.y - q.y)

Abs(n) == IF n < 0 THEN -n ELSE n

\* a direction list whose first entry is a diagonal
diagonal_directions == << <<1, 1>>, <<1, 0>>, <<0, -1>>, <<-1, 0>> >>

\* the direction list of both _get_valid_moves, in its order
Directions == << <<0, 1>>, <<1, 0>>, <<0, -1>>, <<-1, 0>> >>

Range(s) == {s[i] : i \in DOMAIN s}

\* Python's min(seq, key): the first element with the smallest key
RECURSIVE MinFirstFrom(_, _, _, _)
MinFirstFrom(s, key(_), i, best) ==
  IF i > Len(s) THEN best
  ELSE MinFirstFrom(s, key, i + 1, IF key(s[i]) < key(best) THEN s[i] ELSE best)

MinFirst(s, key(_)) == MinFirstFrom(s, key, 2, s[1])

\* list comprehension: the elements of s satisfying ok, in order
RECURSIVE FilterSeq(_, _, _)
FilterSeq(s, ok(_), i) ==
  IF i > Len(s) THEN << >>
  ELSE (IF ok(s[i]) THEN << s[i] >> ELSE << >>) \o FilterSeq(s, ok, i + 1)

\* row-major enumeration "for y in range(h): for x in range(w)"
RowMajor(w, h) ==
  [k \in 1..(IF w > 0 /\ h > 0 THEN w * h ELSE 0) |->
     Position((k - 1) % w, (k - 1) \div w)]

(* --------------------------- Classroom state --------------------------- *)
VARIABLES
  width,             \* Classroom.width
  height,            \* Classroom.height
  safe_zone,         \* Classroom.safe_zone: list of Positions
  grid,              \* Classroom.grid: cell -> CellType
  children,          \* Classroom.children: list of Child objects
  teachers,          \* Classroom.teachers: list of Teacher objects
  teacher,           \* the attribute Classroom.teacher, NoAttr when never set
  last_candy_spawn,  \* Classroom.last_candy_spawn
  now,               \* the value time.time() returns
  phase,             \* position of the caller inside update()
  idx,               \* index of the agent the current pass is at
  elapsed,           \* seconds passed since this update() call began
  log,               \* sub-steps executed by this update() call so far
  captured_at,       \* child index -> clock value of its latest capture
  tick_start,        \* every agent's position when this update() call began
  came_from,         \* every agent's cell before its latest change of position
  zone               \* the patrol rectangle the caller means for each teacher

vars == << width, height, safe_zone, grid, children, teachers, teacher, last_candy_spawn, now, phase,
           idx, elapsed, log, captured_at, tick_start, came_from, zone >>

\* Classroom.teacher when no caller has set that attribute
NoAttr == [position |-> [x |-> -1, y |-> -1],
           previous_position |-> [x |-> -1, y |-> -1]]
Never == -1

\* the cells of the grid
Cells == {Position(px, py) : px \in 0..(width - 1), py \in 0..(height - 1)}

\* Classroom._initialize_safe_zone: the safe-zone list, in creation order
initialize_safe_zone(size) == RowMajor(size[1], size[2])

\* Classroom.is_position_safe_zone
is_position_safe_zone(px, py) ==
  \E k \in DOMAIN safe_zone : px = safe_zone[k].x /\ py = safe_zone[k].y

\* a cooldown that ends one clock unit before its expiry time
can_move_early(child) == now + 1 >= child.cooldown_until

\* a cooldown that never holds a child back
can_move_always(child) == now >= 0

\* Child.can_move
can_move(child) == now >= child.cooldown_until

(* -------------------------------- Child -------------------------------- *)
\* the delay random.uniform(5.0, 10.0) gives the first sub-strategy switch
SwitchDelay == 5

\* Child.__init__ (and Agent.__init__) for a child created at clock value 0
Child(pos, strategy, interval, dir) ==
  [position |-> pos, previous_position |-> pos, strategy |-> strategy,
   cooldown_until |-> 0, last_move_time |-> 0, move_cooldown |-> interval,
   preferred_direction |-> dir, current_substrategy |-> "RANDOM_WALK",
   strategy_switch_time |-> SwitchDelay]

\* what choose_move hands back: a Position, None, or a raised AttributeError
Nowhere == Position(-1, -1)
MoveTo(p) == [kind |-> "move", pos |-> p]
None == [kind |-> "none", pos |-> Nowhere]
AttributeError == [kind |-> "raise", pos |-> Nowhere]

InBounds(p) == 0 <= p.x /\ p.x < width /\ 0 <= p.y /\ p.y < height

\* the four cardinal neighbours of p, in the order of Directions
Neighbours(p) ==
  [k \in 1..4 |-> Position(p.x + Directions[k][1], p.y + Directions[k][2])]

\* valid moves that also admit safe-zone cells
child_moves_into_safe_zone(child) ==
  FilterSeq(Neighbours(child.position),
            LAMBDA p : InBounds(p) /\ grid[p] \in {EMPTY, CANDY, SAFE_ZONE}, 1)

\* Child._get_valid_moves
child_get_valid_moves(child) ==
  FilterSeq(Neighbours(child.position),
            LAMBDA p : InBounds(p) /\ grid[p] \in {EMPTY, CANDY}, 1)

\* a candies list scanned from the last cell of the grid back to the first
candies_reversed ==
  LET found == FilterSeq(RowMajor(width, height), LAMBDA p : grid[p] = CANDY, 1)
  IN [k \in DOMAIN found |-> found[Len(found) + 1 - k]]

\* the candies list of _find_nearest_candy_move, in row-major order
candies == FilterSeq(RowMajor(width, height), LAMBDA p : grid[p] = CANDY, 1)

\* a candy seeker that takes any valid move
find_any_move(child, possible_moves) == Range(possible_moves)

\* Child._find_nearest_candy_move: the set of positions it may return
find_nearest_candy_move(child, possible_moves) ==
  IF candies = << >> THEN Range(possible_moves)
  ELSE LET nearest_candy ==
             MinFirst(candies, LAMBDA c : Dist2(child.position, c))
       IN {MinFirst(possible_moves, LAMBDA p : Dist2(p, nearest_candy))}

\* Python's max(seq, key): the first element with the largest key
MaxFirst(s, key(_)) == MinFirst(s, LAMBDA e : 0 - key(e))

\* Child._find_safest_move: reads classroom.teacher, an attribute that
\* Classroom.__init__ never creates
find_safest_move(child, possible_moves) ==
  IF teacher = NoAttr THEN {AttributeError}
  ELSE {MoveTo(MaxFirst(possible_moves,
                        LAMBDA p : Dist2(p, teacher.position)))}

\* a directional child that ignores its preferred direction
find_undirected_move(child, possible_moves) == Range(possible_moves)

\* Child._find_directional_move
find_directional_move(child, possible_moves) ==
  LET preferred == Position(child.position.x + child.preferred_direction[1],
                            child.position.y + child.preferred_direction[2])
  IN IF preferred \in Range(possible_moves) THEN {preferred}
     ELSE Range(possible_moves)

\* a choose_move that forgets the cooldown test
child_acts_on_cooldown(child) ==
  /\ ~(child.strategy = "STRATEGIC_TIMING"
       /\ now - child.last_move_time < child.move_cooldown)
  /\ child_get_valid_moves(child) # << >>

\* Child.choose_move passes its cooldown and timing gates and has a move
child_acts(child) ==
  /\ can_move(child)
  /\ ~(child.strategy = "STRATEGIC_TIMING"
       /\ now - child.last_move_time < child.move_cooldown)
  /\ child_get_valid_moves(child) # << >>

\* Child.choose_move (the second definition, which is the one in effect):
\* the set of results it may return
child_choose_move(child) ==
  IF ~child_acts(child) THEN {None}
  ELSE LET possible_moves == child_get_valid_moves(child)
       IN CASE child.strategy = "CANDY_SEEKER" ->
                 {MoveTo(p) : p \in find_nearest_candy_move(child, possible_moves)}
            [] child.strategy = "AVOIDANCE" ->
                 find_safest_move(child, possible_moves)
            [] child.strategy = "DIRECTIONAL_BIAS" ->
                 {MoveTo(p) : p \in find_directional_move(child, possible_moves)}
            [] OTHER -> {MoveTo(p) : p \in Range(possible_moves)}

(* ------------------------------- Teacher -------------------------------- *)
\* Teacher.__init__
Teacher(pos) == [position |-> pos, previous_position |-> pos]

strategy_priority ==
  << "AVOIDANCE", "DIRECTIONAL_BIAS", "CANDY_SEEKER", "WALL_HUGGER",
     "GROUP_SEEKER", "CANDY_HOARDER", "SAFE_EXPLORER", "STRATEGIC_TIMING",
     "RANDOM_WALK", "UNPREDICTABLE" >>

\* an adjacency test that counts the teacher's own cell as adjacent
is_within_one(t, other_pos) ==
  LET dx == Abs(t.position.x - other_pos.x)
      dy == Abs(t.position.y - other_pos.y)
  IN dx <= 1 /\ dy <= 1

\* Teacher.is_adjacent_to
is_adjacent_to(t, other_pos) ==
  LET dx == Abs(t.position.x - other_pos.x)
      dy == Abs(t.position.y - other_pos.y)
  IN dx <= 1 /\ dy <= 1 /\ ~(dx = 0 /\ dy = 0)

\* a teacher that may also step onto safe-zone and candy cells
teacher_moves_anywhere(t) ==
  FilterSeq(Neighbours(t.position),
            LAMBDA p : InBounds(p) /\ grid[p] \in {EMPTY, CANDY, SAFE_ZONE}, 1)

\* valid moves that also admit the cells other teachers stand on
teacher_moves_onto_teachers(t) ==
  FilterSeq(Neighbours(t.position),
            LAMBDA p : InBounds(p) /\ grid[p] \in {EMPTY, TEACHER}, 1)

\* Teacher._get_valid_moves
teacher_get_valid_moves(t) ==
  FilterSeq(Neighbours(t.position),
            LAMBDA p : InBounds(p) /\ grid[p] = EMPTY, 1)

\* a candidate list that holds the later children first
candidates_latest_first(s) ==
  LET found == FilterSeq(children,
                         LAMBDA c : /\ c.strategy = s
                                    /\ can_move(c)
                                    /\ ~is_position_safe_zone(c.position.x,
                                                              c.position.y),
                         1)
  IN [k \in DOMAIN found |-> found[Len(found) + 1 - k]]

\* the children a teacher may target with strategy s (teacher.py 72-78)
Candidates(s) ==
  FilterSeq(children,
            LAMBDA c : /\ c.strategy = s
                       /\ can_move(c)
                       /\ ~is_position_safe_zone(c.position.x, c.position.y),
            1)

\* the first strategy of the priority list that has a candidate, 0 if none
RECURSIVE FirstPriority(_)
FirstPriority(k) ==
  IF k > Len(strategy_priority) THEN 0
  ELSE IF Candidates(strategy_priority[k]) # << >> THEN k
  ELSE FirstPriority(k + 1)

\* the target_child of _find_nearest_child_move (teacher.py 63-91): a list
\* holding the child the teacher goes for, empty when there is none
nearest_child(t) ==
  LET k == FirstPriority(1) IN
  IF k = 0 THEN << >>
  ELSE << MinFirst(Candidates(strategy_priority[k]),
                   LAMBDA c : Dist2(t.position, c.position)) >>

\* Teacher.choose_move / Teacher._find_nearest_child_move
teacher_choose_move(t) ==
  LET k == FirstPriority(1) IN
  IF k = 0 THEN None
  ELSE LET target_child ==
             MinFirst(Candidates(strategy_priority[k]),
                      LAMBDA c : Dist2(t.position, c.position))
           possible_moves == teacher_get_valid_moves(t)
       IN IF is_adjacent_to(t, target_child.position) THEN None
          ELSE IF possible_moves = << >> THEN None
          ELSE MoveTo(MinFirst(possible_moves,
                               LAMBDA p : Dist2(p, target_child.position)))

(* ------------------------------ Classroom ------------------------------- *)
\* a vacated cell written without regard to the safe zone
vacated_cell_always_empty(old_x, old_y) == EMPTY

\* a vacated cell that is always marked as safe zone
vacated_cell_always_safe(old_x, old_y) == SAFE_ZONE

\* the value written to a cell its occupant leaves (classroom.py 106-108,
\* 121-123, 156-158)
vacated_cell(old_x, old_y) ==
  IF is_position_safe_zone(old_x, old_y) THEN SAFE_ZONE ELSE EMPTY

\* the grid after Classroom.__init__(w, h, size)
EmptyRoom(w, h, size) ==
  [p \in Range(RowMajor(w, h)) |->
     IF p \in Range(initialize_safe_zone(size)) THEN SAFE_ZONE ELSE EMPTY]

candy_count == Cardinality({p \in Cells : grid[p] = CANDY})

\* a spawn that also takes safe-zone cells
available_or_safe == {p \in Cells : grid[p] \in {EMPTY, SAFE_ZONE}}

\* the available_positions of spawn_candy
available_positions == {p \in Cells : grid[p] = EMPTY}

\* a limit test that lets one more candy through
limit_exceeded == candy_count > MaxCandies

\* the limit test of spawn_candy (classroom.py 71)
limit_reached == candy_count >= MaxCandies

\* an interval test that never holds a spawn back
never_too_early == FALSE

\* the interval test of spawn_candy (classroom.py 74)
too_early == now - last_candy_spawn < candy_spawn_interval

\* where update() continues once position i of pass ph is reached
PassB(i) == IF i > Len(teachers) THEN << "idle", 0 >> ELSE << "teachersB", i >>
Kids(i) == IF i > Len(children) THEN PassB(1) ELSE << "children", i >>
PassA(i) == IF i > Len(teachers) THEN Kids(1) ELSE << "teachersA", i >>
After(ph, i) ==
  CASE ph = "teachersA" -> PassA(i + 1)
    [] ph = "children" -> Kids(i + 1)
    [] ph = "teachersB" -> PassB(i + 1)

Goto(pc) == phase' = pc[1] /\ idx' = pc[2]

\* the first child of the capture loop (classroom.py 98-99), 0 if none
RECURSIVE CaptureIndex(_, _)
\* a capture loop that keeps the last eligible adjacent child
capture_last(t, i) ==
  LET S == {j \in i..Len(children) :
              can_move(children[j]) /\ is_adjacent_to(t, children[j].position)}
  IN IF S = {} THEN 0 ELSE CHOOSE j \in S : \A m \in S : m <= j

\* a capture loop that passes over children standing in the safe zone
capture_outside_safe_zone(t, i) ==
  LET S == {j \in i..Len(children) :
              /\ can_move(children[j])
              /\ is_adjacent_to(t, children[j].position)
              /\ ~is_position_safe_zone(children[j].position.x,
                                        children[j].position.y)}
  IN IF S = {} THEN 0 ELSE CHOOSE j \in S : \A m \in S : j <= m

CaptureIndex(t, i) ==
  IF i > Len(children) THEN 0
  ELSE IF can_move(children[i]) /\ is_adjacent_to(t, children[i].position) THEN i
  ELSE CaptureIndex(t, i + 1)

\* a teleport that always takes the first cell of the safe-zone list
first_safe(child) == safe_zone[1]

\* the teleport destination (classroom.py 101-102)
nearest_safe(child) ==
  MinFirst(safe_zone, LAMBDA pos : Dist2(child.position, pos))

\* Agent.move
move(agent, new_position) ==
  [agent EXCEPT !.previous_position = agent.position,
                !.position = new_position]

\* Child.set_cooldown
set_cooldown(child, duration) ==
  [child EXCEPT !.cooldown_until = now + duration]

(* -------------------------------- setups -------------------------------- *)
\* grid marks written by the caller that populates the classroom
\* (main.py 203-215, tests): candies, then teachers, then children
Populate(room, candy, tpos, cpos) ==
  [p \in DOMAIN room |-> IF p \in cpos THEN CHILD
                         ELSE IF p \in tpos THEN TEACHER
                         ELSE IF p \in candy THEN CANDY
                         ELSE room[p]]

\* the classrooms the callers build: the arguments of Classroom(), the
\* strategies of the two children and their cells, the teacher's cell,
\* whether the teacher is appended to Classroom.teachers (tests) or stored
\* as Classroom.teacher (main.py 207), the candies already placed, and the
\* patrol rectangle (x_min, x_max, y_min, y_max) meant for the teacher
Scenes ==
  { [w |-> 3, h |-> 3, size |-> << 2, 1 >>,
     cast |-> << "RANDOM_WALK", "CANDY_SEEKER" >>,
     c1 |-> Position(2, 1), c2 |-> Position(1, 2), tp |-> Position(0, 2),
     zoned |-> TRUE, candy |-> {}, zone |-> << 0, 1, 0, 3 >>],
    [w |-> 3, h |-> 3, size |-> << 2, 1 >>,
     cast |-> << "DIRECTIONAL_BIAS", "AVOIDANCE" >>,
     c1 |-> Position(0, 1), c2 |-> Position(2, 0), tp |-> Position(2, 2),
     zoned |-> TRUE, candy |-> {}, zone |-> << 2, 3, 0, 3 >>],
    [w |-> 3, h |-> 3, size |-> << 2, 1 >>,
     cast |-> << "AVOIDANCE", "STRATEGIC_TIMING" >>,
     c1 |-> Position(0, 1), c2 |-> Position(1, 0), tp |-> Position(1, 1),
     zoned |-> FALSE, candy |-> {}, zone |-> << 0, 3, 0, 3 >>],
    [w |-> 3, h |-> 3, size |-> << 2, 1 >>,
     cast |-> << "WALL_HUGGER", "UNPREDICTABLE" >>,
     c1 |-> Position(0, 0), c2 |-> Position(1, 0), tp |-> Position(2, 2),
     zoned |-> TRUE,
     candy |-> {Position(2, 0), Position(0, 1), Position(1, 1),
                Position(0, 2), Position(1, 2)},
     zone |-> << 2, 3, 0, 3 >>],
    [w |-> 3, h |-> 3, size |-> << 1, 1 >>,
     cast |-> << "AVOIDANCE", "STRATEGIC_TIMING" >>,
     c1 |-> Position(1, 1), c2 |-> Position(0, 2), tp |-> Position(2, 2),
     zoned |-> TRUE, candy |-> {}, zone |-> << 2, 3, 0, 3 >>],
    [w |-> 3, h |-> 3, size |-> << 1, 1 >>,
     cast |-> << "CANDY_SEEKER", "CANDY_SEEKER" >>,
     c1 |-> Position(2, 1), c2 |-> Position(1, 0), tp |-> Position(0, 2),
     zoned |-> TRUE, candy |-> {Position(2, 0), Position(2, 2)},
     zone |-> << 0, 1, 0, 3 >>],
    [w |-> 3, h |-> 3, size |-> << 1, 1 >>,
     cast |-> << "STRATEGIC_TIMING", "GROUP_SEEKER" >>,
     c1 |-> Position(2, 0), c2 |-> Position(0, 0), tp |-> Position(0, 1),
     tp2 |-> Position(0, 2),
     zoned |-> TRUE, candy |-> {}, zone |-> << 0, 3, 0, 3 >>],
    [w |-> 3, h |-> 3, size |-> << 2, 2 >>,
     cast |-> << "SAFE_EXPLORER", "CANDY_HOARDER" >>,
     c1 |-> Position(2, 0), c2 |-> Position(0, 2), tp |-> Position(2, 2),
     zoned |-> TRUE, candy |-> {}, zone |-> << 0, 3, 0, 3 >>] }

\* the cells of the teachers a scene creates: one, or two when the scene
\* names a second cell
StaffCells(s) ==
  IF "tp2" \in DOMAIN s THEN << s.tp, s.tp2 >> ELSE << s.tp >>

\* the state after construction and population, for the classrooms in S
Setup(S) ==
  \E s \in S :
    /\ width = s.w /\ height = s.h
    /\ safe_zone = initialize_safe_zone(s.size)
    /\ children = << Child(s.c1, s.cast[1], 1, Directions[2]),
                     Child(s.c2, s.cast[2], 2, Directions[1]) >>
    /\ teachers = IF s.zoned
                    THEN [k \in DOMAIN StaffCells(s) |-> Teacher(StaffCells(s)[k])]
                    ELSE << >>
    /\ teacher = IF s.zoned THEN NoAttr ELSE Teacher(s.tp)
    /\ grid = Populate(EmptyRoom(s.w, s.h, s.size), s.candy,
                       Range(StaffCells(s)),
                       {s.c1, s.c2})
    /\ last_candy_spawn = 0
    /\ now = 0
    /\ phase = "idle" /\ idx = 0 /\ elapsed = 0
    /\ log = << >>
    /\ captured_at = [i \in 1..2 |-> Never]
    /\ tick_start = [kids |-> << s.c1, s.c2 >>,
                     staff |-> IF s.zoned THEN StaffCells(s) ELSE << >>]
    /\ came_from = tick_start
    /\ zone = IF s.zoned THEN [k \in DOMAIN StaffCells(s) |-> s.zone]
                          ELSE << >>

Init == Setup(Scenes)

\* a classroom small enough to follow every run to its end: the teacher
\* starts next to an AVOIDANCE child, which it captures at once
LiveScenes ==
  { [w |-> 3, h |-> 3, size |-> << 2, 1 >>,
     cast |-> << "DIRECTIONAL_BIAS", "AVOIDANCE" >>,
     c1 |-> Position(0, 0), c2 |-> Position(2, 1), tp |-> Position(2, 2),
     zoned |-> TRUE, candy |-> {}, zone |-> << 2, 3, 0, 3 >>] }

LiveInit == Setup(LiveScenes)

(* -------------------------------- actions ------------------------------- *)
\* Classroom.width, height and safe_zone are assigned by __init__ only; the
\* patrol rectangles are fixed by the caller's setup and written by no code
room == << width, height, safe_zone, zone >>

\* time passes
Advance ==
  /\ now < MaxTime
  /\ phase \in {"idle", "raised"} \/ elapsed < TickSpan
  /\ now' = now + 1
  /\ elapsed' = IF phase \in {"idle", "raised"} THEN 0 ELSE elapsed + 1
  /\ UNCHANGED << grid, children, teachers, teacher, last_candy_spawn, phase,
                  idx, log, captured_at >>
  /\ UNCHANGED room
  /\ UNCHANGED tick_start
  /\ UNCHANGED came_from

\* update() is called and runs its first step, spawn_candy
spawn_candy ==
  /\ phase = "idle"
  /\ IF limit_reached \/ too_early \/ available_positions = {}
       THEN UNCHANGED << grid, last_candy_spawn >>
       ELSE \E p \in available_positions :
              /\ grid' = [grid EXCEPT ![p] = CANDY]
              /\ last_candy_spawn' = now
  /\ Goto(PassA(1))
  /\ elapsed' = 0
  /\ log' = << << "spawn", 0 >> >>
  /\ UNCHANGED << children, teachers, teacher, now, captured_at >>
  /\ tick_start' = [kids |-> [i \in DOMAIN children |-> children[i].position],
                    staff |-> [k \in DOMAIN teachers |-> teachers[k].position]]
  /\ UNCHANGED came_from
  /\ UNCHANGED room

InTeacherPass == phase \in {"teachersA", "teachersB"}

\* _process_teacher_movement, capture branch (classroom.py 98-114)
TeacherCapture ==
  /\ InTeacherPass
  /\ LET i == CaptureIndex(teachers[idx], 1) IN
     /\ i # 0
     /\ LET child == children[i]
            dest == nearest_safe(child)
            old == child.position
        IN /\ grid' = [[grid EXCEPT ![old] = vacated_cell(old.x, old.y)]
                         EXCEPT ![dest] = CHILD]
           /\ children' = [children EXCEPT
                             ![i] = set_cooldown([child EXCEPT !.position = dest],
                                                 CooldownDuration)]
           /\ captured_at' = [captured_at EXCEPT ![i] = now]
           /\ came_from' = IF dest = old THEN came_from
                           ELSE [came_from EXCEPT !.kids[i] = old]
  /\ Goto(After(phase, idx))
  /\ log' = Append(log, << "teacher", idx >>)
  /\ UNCHANGED << teachers, teacher, last_candy_spawn, now, elapsed >>
  /\ UNCHANGED room
  /\ UNCHANGED tick_start

\* _process_teacher_movement, movement branch (classroom.py 117-126)
TeacherMove ==
  /\ InTeacherPass
  /\ CaptureIndex(teachers[idx], 1) = 0
  /\ LET t == teachers[idx]
         new_position == teacher_choose_move(t)
     IN /\ new_position.kind = "move"
        /\ grid' = [[grid EXCEPT ![t.position] =
                                   vacated_cell(t.position.x, t.position.y)]
                      EXCEPT ![new_position.pos] = TEACHER]
        /\ teachers' = [teachers EXCEPT ![idx] = move(t, new_position.pos)]
        /\ came_from' = [came_from EXCEPT !.staff[idx] = t.position]
  /\ Goto(After(phase, idx))
  /\ log' = Append(log, << "teacher", idx >>)
  /\ UNCHANGED << children, teacher, last_candy_spawn, now, elapsed,
                  captured_at >>
  /\ UNCHANGED room
  /\ UNCHANGED tick_start

\* _process_teacher_movement when choose_move returns None
TeacherStay ==
  /\ InTeacherPass
  /\ CaptureIndex(teachers[idx], 1) = 0
  /\ teacher_choose_move(teachers[idx]).kind = "none"
  /\ Goto(After(phase, idx))
  /\ log' = Append(log, << "teacher", idx >>)
  /\ UNCHANGED << grid, children, teachers, teacher, last_candy_spawn, now,
                  elapsed, captured_at >>
  /\ UNCHANGED room
  /\ UNCHANGED tick_start
  /\ UNCHANGED came_from

\* a choose_move that leaves last_move_time alone
never_touched(child) == child

\* a choose_move that also puts the child on the first valid cell
touched_and_moved(child) ==
  IF child_acts(child)
    THEN [child EXCEPT !.last_move_time = now,
                       !.position = child_get_valid_moves(child)[1]]
    ELSE child

\* the last_move_time that choose_move leaves behind (child.py 164)
Touched(child) ==
  IF child_acts(child) THEN [child EXCEPT !.last_move_time = now] ELSE child

\* child pass of update(): the child moves (classroom.py 146-160)
ChildMove ==
  /\ phase = "children"
  /\ can_move(children[idx])
  /\ \E r \in child_choose_move(children[idx]) :
       /\ r.kind = "move"
       /\ LET child == Touched(children[idx])
              old == child.position
              collected == IF grid[r.pos] = CANDY
                             THEN [grid EXCEPT ![r.pos] = EMPTY] ELSE grid
          IN /\ grid' = [[collected EXCEPT ![old] = vacated_cell(old.x, old.y)]
                           EXCEPT ![r.pos] = CHILD]
             /\ children' = [children EXCEPT ![idx] = move(child, r.pos)]
             /\ came_from' = [came_from EXCEPT !.kids[idx] = old]
  /\ Goto(After(phase, idx))
  /\ log' = Append(log, << "child", idx >>)
  /\ UNCHANGED << teachers, teacher, last_candy_spawn, now, elapsed,
                  captured_at >>
  /\ UNCHANGED room
  /\ UNCHANGED tick_start

\* child pass of update(): the child is on cooldown or choose_move is None
ChildSkip ==
  /\ phase = "children"
  /\ \/ ~can_move(children[idx])
     \/ None \in child_choose_move(children[idx])
  /\ Goto(After(phase, idx))
  /\ log' = Append(log, << "child", idx >>)
  /\ UNCHANGED << grid, children, teachers, teacher, last_candy_spawn, now,
                  elapsed, captured_at >>
  /\ UNCHANGED room
  /\ UNCHANGED tick_start
  /\ UNCHANGED came_from

\* child pass of update(): choose_move raises and update() is abandoned
ChildRaise ==
  /\ phase = "children"
  /\ can_move(children[idx])
  /\ AttributeError \in child_choose_move(children[idx])
  /\ children' = [children EXCEPT ![idx] = Touched(children[idx])]
  /\ phase' = "raised"
  /\ log' = Append(log, << "raise", idx >>)
  /\ UNCHANGED << grid, teachers, teacher, last_candy_spawn, now, idx,
                  elapsed, captured_at >>
  /\ UNCHANGED room
  /\ UNCHANGED tick_start
  /\ UNCHANGED came_from

Next ==
  \/ Advance
  \/ spawn_candy
  \/ TeacherCapture
  \/ TeacherMove
  \/ TeacherStay
  \/ ChildMove
  \/ ChildSkip
  \/ ChildRaise

Spec == Init /\ [][Next]_vars

\* a sub-step of update(), which the caller's loop keeps executing
\* (main.py 223-225)
Step ==
  \/ spawn_candy
  \/ TeacherCapture
  \/ TeacherMove
  \/ TeacherStay
  \/ ChildMove
  \/ ChildSkip
  \/ ChildRaise

\* update() runs on once called, and the wall clock keeps advancing
\* whatever the simulation does
FairSpec ==
  LiveInit /\ [][Next]_vars /\ WF_vars(Step) /\ SF_vars(Advance)

(* ============================== properties ============================== *)
Occupants == Range(children) \cup Range(teachers)

\* a step in which update() runs one of its sub-steps (not the clock)
SubStep == log' # log

\* C1: whenever a child or a teacher leaves a cell (by moving or by a capture
\* teleport), that cell then holds SAFE_ZONE if it is a safe-zone cell and
\* EMPTY otherwise; and no safe-zone cell ever holds EMPTY.
C1_VacatedCellReverts ==
  /\ [](\A p \in Cells : is_position_safe_zone(p.x, p.y) => grid[p] # EMPTY)
  /\ [][/\ \A i \in DOMAIN children :
             children'[i].position # children[i].position =>
               grid'[children[i].position] =
                 (IF children[i].position \in Range(safe_zone)
                    THEN SAFE_ZONE ELSE EMPTY)
        /\ \A k \in DOMAIN teachers :
             teachers'[k].position # teachers[k].position =>
               grid'[teachers[k].position] =
                 (IF teachers[k].position \in Range(safe_zone)
                    THEN SAFE_ZONE ELSE EMPTY)]_vars

\* a child teleported into the safe zone has stepped out of it again and the
\* cell it left holds SAFE_ZONE
C1_Witness ==
  \E i \in DOMAIN children :
    /\ captured_at[i] # Never
    /\ children[i].previous_position \in Range(safe_zone)
    /\ children[i].position \notin Range(safe_zone)
    /\ grid[children[i].previous_position] = SAFE_ZONE

\* C2: no two agents of the collections ever stand on the same cell.
C2_DistinctPositions ==
  /\ \A i, j \in DOMAIN children :
       i # j => children[i].position # children[j].position
  /\ \A k, l \in DOMAIN teachers :
       k # l => teachers[k].position # teachers[l].position
  /\ \A i \in DOMAIN children, k \in DOMAIN teachers :
       children[i].position # teachers[k].position

\* C3: between ticks the grid and the agents agree: every child's cell holds
\* CHILD, every teacher's cell holds TEACHER, and every CHILD or TEACHER cell
\* is the position of an agent of that kind.
C3_GridAgentConsistency ==
  phase = "idle" =>
    /\ \A i \in DOMAIN children : grid[children[i].position] = CHILD
    /\ \A k \in DOMAIN teachers : grid[teachers[k].position] = TEACHER
    /\ \A p \in Cells :
         /\ grid[p] = CHILD => \E i \in DOMAIN children : children[i].position = p
         /\ grid[p] = TEACHER =>
              \/ \E k \in DOMAIN teachers : teachers[k].position = p
              \/ teacher # NoAttr /\ teacher.position = p

\* the clock value at which the current update() call began
TickStart == now - elapsed

\* C4: when a teacher begins a sub-step 8-adjacent to a child whose cooldown
\* has expired, that sub-step teleports such a child to a safe-zone cell at
\* least distance from where it stood, the cell it left reverts to
\* SAFE_ZONE/EMPTY, its new cell holds CHILD, and every child captured during
\* a tick is still on cooldown when that tick ends.
C4_Capture ==
  [][/\ (/\ InTeacherPass
         /\ SubStep
         /\ \E i \in DOMAIN children :
              /\ can_move(children[i])
              /\ is_adjacent_to(teachers[idx], children[i].position))
        => \E i \in DOMAIN children :
             LET old == children[i].position
                 new == children'[i].position
             IN /\ can_move(children[i])
                /\ is_adjacent_to(teachers[idx], old)
                /\ new \in Range(safe_zone)
                /\ \A sz \in Range(safe_zone) : Dist2(old, new) <= Dist2(old, sz)
                /\ new # old =>
                     grid'[old] = (IF old \in Range(safe_zone)
                                     THEN SAFE_ZONE ELSE EMPTY)
                /\ grid'[new] = CHILD
                /\ now' < children'[i].cooldown_until
     /\ (phase # "idle" /\ phase' \in {"idle", "raised"})
        => \A i \in DOMAIN children :
             captured_at'[i] >= TickStart' => ~(now' >= children'[i].cooldown_until)
    ]_vars

\* a tick has ended in which a child standing nearer to the second safe-zone
\* cell than to the first was captured and put on that second cell
C4_Witness ==
  /\ phase = "idle"
  /\ \E i \in DOMAIN children :
       /\ captured_at[i] # Never
       /\ captured_at[i] >= TickStart
       /\ children[i].position = safe_zone[2]
       /\ grid[children[i].position] = CHILD
       /\ ~can_move(children[i])

\* C5: a child captured at clock value t cannot move at any clock value below
\* t + 5 and can move at every clock value from t + 5 on (until it is captured
\* again); so, as the clock keeps advancing, every child on cooldown becomes
\* eligible again (within the horizon MaxTime of the clock).
C5_CooldownTiming ==
  /\ [](\A i \in DOMAIN children :
          captured_at[i] # Never =>
            (can_move(children[i]) <=> now >= captured_at[i] + CooldownDuration))
  /\ \A i \in {1, 2} :
       [](( /\ ~can_move(children[i])
            /\ children[i].cooldown_until <= MaxTime )
          => <>can_move(children[i]))

\* a captured child has sat out its cooldown and is eligible again
C5_Witness ==
  \E i \in DOMAIN children :
    /\ captured_at[i] # Never
    /\ now = captured_at[i] + CooldownDuration
    /\ can_move(children[i])
    /\ children[i].position \in Range(safe_zone)

\* a step in which update() is called and runs spawn_candy
SpawnCall == phase = "idle" /\ SubStep

\* the cells some agent stands on
AgentCells ==
  {a.position : a \in Occupants} \cup
  (IF teacher = NoAttr THEN {} ELSE {teacher.position})

\* C6: the number of CANDY cells never exceeds 5, and a spawn_candy call made
\* with 5 candies on the grid changes neither the grid nor last_candy_spawn,
\* even when the spawn interval has elapsed.
C6_CandyLimit ==
  /\ [](candy_count <= MaxCandies)
  /\ [][(SpawnCall /\ candy_count >= MaxCandies)
          => (grid' = grid /\ last_candy_spawn' = last_candy_spawn)]_vars

\* spawn_candy has just returned without spawning although the interval had
\* elapsed and an EMPTY cell was free, because 5 candies are on the grid
C6_Witness ==
  /\ log = << << "spawn", 0 >> >>
  /\ elapsed = 0
  /\ candy_count = MaxCandies
  /\ now - last_candy_spawn >= candy_spawn_interval
  /\ available_positions # {}

\* C7: a spawn_candy call made less than the spawn interval after the last
\* spawn leaves the whole grid and last_candy_spawn unchanged.
C7_SpawnTooEarly ==
  [][(SpawnCall /\ now - last_candy_spawn < candy_spawn_interval)
       => (grid' = grid /\ last_candy_spawn' = last_candy_spawn)]_vars

\* spawn_candy has just returned without spawning, below the limit and with
\* an EMPTY cell free, because the interval had not elapsed
C7_Witness ==
  /\ log = << << "spawn", 0 >> >>
  /\ elapsed = 0
  /\ last_candy_spawn < now
  /\ now - last_candy_spawn < candy_spawn_interval
  /\ candy_count < MaxCandies
  /\ available_positions # {}

\* C8: a spawn_candy call made when the interval has elapsed, fewer than 5
\* candies lie on the grid and some cell is EMPTY turns exactly one EMPTY
\* cell into CANDY, changes no other cell, raises the candy count by one and
\* sets last_candy_spawn to the clock; the cell is neither a safe-zone cell
\* nor a cell an agent stands on.
C8_SpawnEffect ==
  [][(/\ SpawnCall
      /\ now - last_candy_spawn >= candy_spawn_interval
      /\ candy_count < MaxCandies
      /\ \E p \in Cells : grid[p] = EMPTY)
       => /\ \E p \in Cells :
               /\ grid[p] = EMPTY
               /\ grid' = [grid EXCEPT ![p] = CANDY]
               /\ p \notin Range(safe_zone)
               /\ p \notin AgentCells
          /\ candy_count' = candy_count + 1
          /\ last_candy_spawn' = now']_vars

\* spawn_candy has just placed a candy
C8_Witness ==
  /\ log = << << "spawn", 0 >> >>
  /\ elapsed = 0
  /\ now >= candy_spawn_interval
  /\ last_candy_spawn = now
  /\ candy_count >= 1

\* the sub-steps of one complete update() call, in the order the claim gives
FullLog ==
  << << "spawn", 0 >> >>
  \o [k \in 1..Len(teachers) |-> << "teacher", k >>]
  \o [i \in 1..Len(children) |-> << "child", i >>]
  \o [k \in 1..Len(teachers) |-> << "teacher", k >>]

\* C9: an update() call runs spawn_candy, then one sub-step per teacher in
\* list order, then one move opportunity per child in list order, then a
\* second sub-step per teacher; a call that has ended has run all of them.
C9_TickOrder ==
  /\ Len(log) <= Len(FullLog)
  /\ \A n \in 1..Len(log) : log[n] = FullLog[n]
  /\ (phase \in {"idle", "raised"} /\ log # << >>) => log = FullLog

\* the child as it is, and, at the moment the child pass calls its
\* choose_move, the same child under every strategy and preferred direction
Variants(i) ==
  IF phase = "children" /\ idx = i
    THEN {[children[i] EXCEPT !.strategy = s, !.preferred_direction = d] :
            s \in MovementStrategy \ {"DIRECTIONAL_BIAS"},
            d \in {children[i].preferred_direction}}
         \cup {[children[i] EXCEPT !.strategy = "DIRECTIONAL_BIAS",
                                   !.preferred_direction = d] :
                 d \in Range(Directions)}
    ELSE {children[i]}

\* C10: every destination choose_move can return for a child (in every
\* state for the child as it is; for every strategy and preferred direction
\* where the child pass calls it) is a cardinal neighbour of the child's
\* position, lies inside the grid and holds EMPTY or CANDY.
C10_ValidDestinations ==
  \A i \in DOMAIN children :
    \A child \in Variants(i) :
      \A r \in child_choose_move(child) :
        r.kind = "move" =>
          /\ Dist2(child.position, r.pos) = 1
          /\ InBounds(r.pos)
          /\ grid[r.pos] \in {EMPTY, CANDY}

\* the child pass has just moved a child one step, away from a cell that
\* has a safe-zone or occupied cell among its neighbours
C10_Witness ==
  \E i \in DOMAIN children :
    /\ log # << >>
    /\ log[Len(log)] = << "child", i >>
    /\ children[i].last_move_time = now
    /\ Dist2(children[i].position, children[i].previous_position) = 1
    /\ \E k \in 1..4 :
         LET n == Neighbours(children[i].previous_position)[k]
         IN InBounds(n) /\ grid[n] \in {SAFE_ZONE, CHILD, TEACHER}
            /\ n # children[i].position

\* C11: whenever a teacher of the collection changes position, the cell it
\* steps onto held EMPTY just before; and such a teacher (every one starts
\* outside the safe zone) never stands on a safe-zone cell, on a cell holding
\* CANDY, or on a cell a child stands on.
C11_TeacherTreadsEmpty ==
  /\ [][\A k \in DOMAIN teachers :
          teachers'[k].position # teachers[k].position =>
            grid[teachers'[k].position] = EMPTY]_vars
  /\ [](\A k \in DOMAIN teachers :
          /\ teachers[k].position \notin Range(safe_zone)
          /\ grid[teachers[k].position] # CANDY
          /\ \A i \in DOMAIN children :
               children[i].position # teachers[k].position)

\* a teacher has just stepped while a safe-zone cell, a candy or a child was
\* among the neighbours of the cell it left
C11_Witness ==
  \E k \in DOMAIN teachers :
    /\ log # << >>
    /\ log[Len(log)] = << "teacher", k >>
    /\ Dist2(teachers[k].position, teachers[k].previous_position) = 1
    /\ grid[teachers[k].position] = TEACHER
    /\ \E n \in Range(Neighbours(teachers[k].previous_position)) :
         /\ InBounds(n)
         /\ n # teachers[k].position
         /\ grid[n] \in {SAFE_ZONE, CANDY, CHILD}

\* a completed update() call, before the next one begins
TickDone == phase = "idle" /\ log # << >>

\* C12 as stated: after every completed tick, every child and every teacher
\* stands either exactly one cardinal step (distance 1.0) from the cell it
\* stood on when the tick began, or on that same cell.
C12_TickDisplacement ==
  TickDone =>
    /\ \A i \in DOMAIN children :
         Dist2(tick_start.kids[i], children[i].position) \in {0, 1}
    /\ \A k \in DOMAIN teachers :
         Dist2(tick_start.staff[k], teachers[k].position) \in {0, 1}

\* the sub-step just taken captured child i (set_cooldown ran on it)
Captured(i) == children'[i].cooldown_until # children[i].cooldown_until

\* C12 as amended: every single sub-step of a tick leaves each agent where it
\* was or moves it exactly one cardinal step (distance 1.0), except that the
\* sub-step capturing a child teleports that child to a safe-zone cell.
C12_StepDistance ==
  [][/\ \A k \in DOMAIN teachers :
          Dist2(teachers[k].position, teachers'[k].position) \in {0, 1}
     /\ \A i \in DOMAIN children :
          IF Captured(i)
            THEN InTeacherPass /\ children'[i].position \in Range(safe_zone)
            ELSE Dist2(children[i].position, children'[i].position) \in {0, 1}
    ]_vars

\* a tick has completed in which the teacher stepped in both passes, each
\* time by one cell, after a child had been teleported into the safe zone
C12_Witness ==
  /\ TickDone
  /\ \E k \in DOMAIN teachers :
       /\ Dist2(tick_start.staff[k], teachers[k].position) > 1
       /\ Dist2(teachers[k].previous_position, teachers[k].position) = 1
  /\ \E i \in DOMAIN children :
       /\ captured_at[i] # Never
       /\ children[i].position \in Range(safe_zone)

\* C13: after every completed tick, every child's and every teacher's
\* previous_position either equals its position, or is the cell the agent
\* stood on right before its latest change of position and lies at distance
\* exactly 1 from its position.
C13_PreviousPositionAudit ==
  TickDone =>
    /\ \A i \in DOMAIN children :
         \/ children[i].previous_position = children[i].position
         \/ /\ children[i].previous_position = came_from.kids[i]
            /\ Dist2(children[i].previous_position, children[i].position) = 1
    /\ \A k \in DOMAIN teachers :
         \/ teachers[k].previous_position = teachers[k].position
         \/ /\ teachers[k].previous_position = came_from.staff[k]
            /\ Dist2(teachers[k].previous_position, teachers[k].position) = 1

\* C14: in the zoned Classroom (teachers held in Classroom.teachers, no
\* teacher attribute set by a caller) no update() call is ever abandoned by
\* an error: every call that starts runs all its passes.
C14_TickTotal ==
  (teachers # << >> /\ teacher = NoAttr) => phase # "raised"

\* child i is on cooldown or has no valid move among its four neighbours
NoOp(child) == ~can_move(child) \/ child_get_valid_moves(child) = << >>

\* C15: for a child on cooldown or without a valid move, choose_move returns
\* None and nothing else (under every strategy where the child pass calls
\* it), and that child's turn in the child pass raises no error and leaves
\* the child's position and the whole grid unchanged.
C15_NoOpIsNotAnError ==
  /\ [](\A i \in DOMAIN children :
          \A child \in Variants(i) :
            NoOp(child) => child_choose_move(child) = {None})
  /\ [][(phase = "children" /\ SubStep /\ NoOp(children[idx]))
          => /\ phase' # "raised"
             /\ children'[idx].position = children[idx].position
             /\ grid' = grid]_vars

\* the child pass has just passed over a child that is off cooldown but has
\* no valid move, while the other child is on cooldown
C15_Witness ==
  \E i, j \in DOMAIN children :
    /\ log # << >>
    /\ log[Len(log)] = << "child", i >>
    /\ can_move(children[i])
    /\ child_get_valid_moves(children[i]) = << >>
    /\ children[i].strategy # "STRATEGIC_TIMING"
    /\ ~can_move(children[j])

\* child i as a CANDY_SEEKER: itself if that is its strategy, and any child
\* at the moment the child pass calls its choose_move
Seekers(i) == {c \in Variants(i) : c.strategy = "CANDY_SEEKER"}

\* the test setting of C16: one candy on the grid, the child able to act
OneCandyCase(child) ==
  /\ Len(candies) = 1
  /\ can_move(child)
  /\ child_get_valid_moves(child) # << >>

\* C16 as stated: a CANDY_SEEKER child that can act, with exactly one candy
\* on the grid and at least one valid move, gets from choose_move a move
\* strictly nearer to the candy than the cell it stands on.
C16_StrictlyCloser ==
  \A i \in DOMAIN children :
    \A child \in Seekers(i) :
      OneCandyCase(child) =>
        \A r \in child_choose_move(child) :
          /\ r.kind = "move"
          /\ Dist2(r.pos, candies[1]) < Dist2(child.position, candies[1])

\* C16 as amended: such a child gets from choose_move a valid move that no
\* other valid move beats in distance to the candy; it is strictly nearer to
\* the candy than the child's cell whenever some valid move is.
C16_NearestValidMove ==
  \A i \in DOMAIN children :
    \A child \in Seekers(i) :
      OneCandyCase(child) =>
        \A r \in child_choose_move(child) :
          /\ r.kind = "move"
          /\ r.pos \in Range(child_get_valid_moves(child))
          /\ \A p \in Range(child_get_valid_moves(child)) :
               Dist2(r.pos, candies[1]) <= Dist2(p, candies[1])
          /\ (\E p \in Range(child_get_valid_moves(child)) :
                Dist2(p, candies[1]) < Dist2(child.position, candies[1]))
             => Dist2(r.pos, candies[1]) < Dist2(child.position, candies[1])

\* the child pass is about to move a CANDY_SEEKER child that has one candy
\* to go for, a valid move nearer to it and a valid move farther from it
C16_Witness ==
  /\ phase = "children"
  /\ children[idx].strategy = "CANDY_SEEKER"
  /\ OneCandyCase(children[idx])
  /\ \E p, q \in Range(child_get_valid_moves(children[idx])) :
       /\ Dist2(p, candies[1]) < Dist2(children[idx].position, candies[1])
       /\ Dist2(q, candies[1]) > Dist2(children[idx].position, candies[1])

\* child i as an AVOIDANCE child: itself if that is its strategy, and any
\* child at the moment the child pass calls its choose_move
Avoiders(i) == {c \in Variants(i) : c.strategy = "AVOIDANCE"}

\* the one teacher of the classroom, held in the teachers list or stored as
\* the teacher attribute by the caller
SingleTeacher == IF teacher # NoAttr THEN teacher ELSE teachers[1]

\* the test setting of C17: one teacher, the child able to act and all four
\* of its cardinal neighbours valid moves
FourWayCase(child) ==
  /\ Len(teachers) + (IF teacher # NoAttr THEN 1 ELSE 0) = 1
  /\ can_move(child)
  /\ Len(child_get_valid_moves(child)) = 4

\* C17: an AVOIDANCE child that can act, facing a single teacher and with
\* all four cardinal neighbours valid, gets from choose_move a move strictly
\* farther from the teacher than the cell it stands on, and no valid move is
\* farther from the teacher than that one.
C17_StrictlyFarther ==
  \A i \in DOMAIN children :
    \A child \in Avoiders(i) :
      FourWayCase(child) =>
        \A r \in child_choose_move(child) :
          /\ r.kind = "move"
          /\ Dist2(r.pos, SingleTeacher.position)
               > Dist2(child.position, SingleTeacher.position)
          /\ \A p \in Range(child_get_valid_moves(child)) :
               Dist2(p, SingleTeacher.position)
                 <= Dist2(r.pos, SingleTeacher.position)

\* p lies inside the rectangle z = (x_min, x_max, y_min, y_max)
InZone(z, p) == z[1] <= p.x /\ p.x < z[2] /\ z[3] <= p.y /\ p.y < z[4]

\* the candidates of strategy s for teacher k as C18 defines them: inside
\* the teacher's patrol rectangle, off the safe zone and eligible to move
ZoneCandidates(k, s) ==
  FilterSeq(children,
            LAMBDA c : /\ c.strategy = s
                       /\ can_move(c)
                       /\ ~is_position_safe_zone(c.position.x, c.position.y)
                       /\ InZone(zone[k], c.position),
            1)

\* the first entry of the priority list with such a candidate, 0 if none
RECURSIVE ZonePriority(_, _)
ZonePriority(k, n) ==
  IF n > Len(strategy_priority) THEN 0
  ELSE IF ZoneCandidates(k, strategy_priority[n]) # << >> THEN n
  ELSE ZonePriority(k, n + 1)

\* C18: the child a teacher goes for is always a candidate (inside the
\* teacher's patrol rectangle, off the safe zone, eligible to move), and when
\* candidates exist it is the nearest candidate, first in collection order
\* among equals, of the first strategy in the priority list that has one.
C18_TargetSelection ==
  \A k \in DOMAIN teachers :
    LET target == nearest_child(teachers[k])
        n == ZonePriority(k, 1)
    IN /\ target # << >> =>
            /\ InZone(zone[k], target[1].position)
            /\ can_move(target[1])
            /\ ~is_position_safe_zone(target[1].position.x,
                                      target[1].position.y)
       /\ n # 0 =>
            target = << MinFirst(ZoneCandidates(k, strategy_priority[n]),
                                 LAMBDA c : Dist2(teachers[k].position,
                                                  c.position)) >>

\* C19: as long as no candidate child is inside a teacher's patrol rectangle,
\* every move choose_move proposes for that teacher lies inside the rectangle
\* and a teacher standing inside its rectangle is still inside it after each
\* sub-step.
C19_PatrolContainment ==
  [][\A k \in DOMAIN teachers :
       (ZonePriority(k, 1) = 0 /\ InZone(zone[k], teachers[k].position))
         => /\ teacher_choose_move(teachers[k]).kind = "move"
                 => InZone(zone[k], teacher_choose_move(teachers[k]).pos)
            /\ InZone(zone[k], teachers'[k].position)]_vars

\* four times the squared distance from p to the geometric centre
\* ((x_min + x_max) / 2, (y_min + y_max) / 2) of teacher k's patrol rectangle
CentreDist4(k, p) ==
  (2 * p.x - (zone[k][1] + zone[k][2])) * (2 * p.x - (zone[k][1] + zone[k][2]))
  + (2 * p.y - (zone[k][3] + zone[k][4])) * (2 * p.y - (zone[k][3] + zone[k][4]))

\* C20: in a teacher sub-step without capture in which no child is a
\* candidate (none is eligible outside the safe zone) and the teacher has a
\* valid move, the teacher does not stay in place: it steps onto a valid move
\* that is nearest to the centre of its patrol rectangle.
C20_PatrolTowardCentre ==
  [][(/\ InTeacherPass
      /\ SubStep
      /\ CaptureIndex(teachers[idx], 1) = 0
      /\ FirstPriority(1) = 0
      /\ teacher_get_valid_moves(teachers[idx]) # << >>)
       => /\ teachers'[idx].position # teachers[idx].position
          /\ teachers'[idx].position
               \in Range(teacher_get_valid_moves(teachers[idx]))
          /\ \A p \in Range(teacher_get_valid_moves(teachers[idx])) :
               CentreDist4(idx, teachers'[idx].position) <= CentreDist4(idx, p)
    ]_vars

\* ------------------------------------------------------------------------
\* C21: in a teacher sub-step that captures, exactly one child is captured,
\* and it is the first child in collection order that can move and is
\* adjacent to the teacher; every other child is untouched and the teacher
\* keeps its position and previous position (no move is computed).  A tick
\* has at most two sub-steps per teacher, hence at most 2 * (number of
\* teachers) captures.
Eligible(t, j) ==
  can_move(children[j]) /\ is_adjacent_to(t, children[j].position)

TeacherSubSteps(l) == {k \in DOMAIN l : l[k][1] = "teacher"}

C21_OneCapturePerSubStep ==
  [][ (InTeacherPass /\ \E i \in DOMAIN children : Captured(i)) =>
        /\ \E i \in DOMAIN children :
             /\ Eligible(teachers[idx], i)
             /\ \A j \in 1..(i - 1) : ~Eligible(teachers[idx], j)
             /\ Captured(i)
             /\ \A j \in DOMAIN children \ {i} : children'[j] = children[j]
        /\ teachers' = teachers
        /\ Cardinality(TeacherSubSteps(log')) <= 2 * Len(teachers) ]_vars

\* a capture has just happened although a later child was eligible as well:
\* that child is still free, still adjacent to the same teacher, not captured
C21_Witness ==
  /\ log # << >>
  /\ log[Len(log)][1] = "teacher"
  /\ \E i \in DOMAIN children : \E j \in DOMAIN children :
       /\ i < j
       /\ captured_at[i] = now
       /\ ~can_move(children[i])
       /\ came_from.kids[i] # children[i].position
       /\ is_adjacent_to(teachers[log[Len(log)][2]], came_from.kids[i])
       /\ Eligible(teachers[log[Len(log)][2]], j)
       /\ captured_at[j] = Never

\* ------------------------------------------------------------------------
\* the attributes of a Child that could count the items it has collected:
\* whatever __init__ creates besides the position, strategy, cooldown and
\* timing attributes (child.py 14-24 creates no other attribute)
CounterAttributes(child) ==
  DOMAIN child \ {"position", "previous_position", "strategy",
                  "cooldown_until", "last_move_time", "move_cooldown",
                  "preferred_direction", "current_substrategy",
                  "strategy_switch_time"}

\* the move a child makes in this step of the child pass, as a set
ChildStep ==
  IF phase = "children" /\ children'[idx].position # children[idx].position
    THEN {children'[idx].position} ELSE {}

\* C22: a child's move onto a Candy cell removes the candy (the number of
\* Candy cells drops by exactly one and the cell ends up ChildOccupied) and
\* adds exactly one to the child's collected-items counter; a move onto an
\* Empty cell changes neither the number of candies nor the counter.
C22_CandyCollection ==
  [][ \A dest \in ChildStep :
        IF grid[dest] = CANDY
          THEN /\ candy_count' = candy_count - 1
               /\ grid'[dest] = CHILD
               /\ \E f \in CounterAttributes(children[idx]) :
                    children'[idx][f] = children[idx][f] + 1
          ELSE /\ candy_count' = candy_count
               /\ \A f \in CounterAttributes(children[idx]) :
                    children'[idx][f] = children[idx][f] ]_vars

\* ------------------------------------------------------------------------
\* Construction of a Classroom from arbitrary arguments
MaxSide == 4

\* the widths and heights a caller may pass, and the safe-zone sizes
Sides == -1..MaxSide
Sizes == {<< sw, sh >> : sw \in -1..(MaxSide + 1), sh \in -1..(MaxSide + 1)}

\* Classroom.__init__: what the constructor does with its arguments.
\* np.full refuses a negative dimension; _initialize_safe_zone writes
\* grid[y][x] for every cell of the safe zone, which raises IndexError for
\* a cell outside the array; nothing else is checked.
Classroom_init(w, h, size) ==
  IF w < 0 \/ h < 0 THEN "ValueError"
  ELSE IF \E p \in Range(initialize_safe_zone(size)) : p.x >= w \/ p.y >= h
    THEN "IndexError"
  ELSE "ok"

\* no Classroom object exists yet
GeometryInit ==
  /\ width = 0 /\ height = 0
  /\ safe_zone = << >>
  /\ grid = EmptyRoom(0, 0, << 0, 0 >>)
  /\ children = << >> /\ teachers = << >> /\ teacher = NoAttr
  /\ last_candy_spawn = 0
  /\ now = 0
  /\ phase = "new" /\ idx = 0 /\ elapsed = 0
  /\ log = << >>
  /\ captured_at = << >>
  /\ tick_start = [kids |-> << >>, staff |-> << >>]
  /\ came_from = [kids |-> << >>, staff |-> << >>]
  /\ zone = << >>

\* Classroom(w, h, size) returns an object (classroom.py 19-42)
Construct ==
  /\ phase = "new"
  /\ \E w \in Sides : \E h \in Sides : \E size \in Sizes :
       /\ Classroom_init(w, h, size) = "ok"
       /\ width' = w /\ height' = h
       /\ grid' = EmptyRoom(w, h, size)
       /\ safe_zone' = initialize_safe_zone(size)
  /\ last_candy_spawn' = now
  /\ phase' = "idle"
  /\ UNCHANGED << children, teachers, teacher, now, idx, elapsed, log,
                  captured_at, tick_start, came_from, zone >>

\* Classroom(w, h, size) raises and no object is created
ConstructRaises ==
  /\ phase = "new"
  /\ \E w \in Sides : \E h \in Sides : \E size \in Sizes :
       phase' = Classroom_init(w, h, size)
  /\ phase' # "ok"
  /\ UNCHANGED << grid, children, teachers, teacher, last_candy_spawn, now,
                  idx, elapsed, log, captured_at, tick_start, came_from >>
  /\ UNCHANGED room

GeometryNext ==
  \/ Construct
  \/ ConstructRaises

GeometrySpec == GeometryInit /\ [][GeometryNext]_vars

\* C23: a Classroom whose geometry is degenerate (width or height not
\* positive, a safe zone wider or taller than the grid, or an empty safe
\* zone) is rejected by the constructor: every Classroom that exists has
\* positive dimensions and a non-empty safe zone that fits in its grid.
C23_DegenerateGeometryRejected ==
  phase = "idle" =>
    /\ width > 0 /\ height > 0
    /\ safe_zone # << >>
    /\ \A k \in DOMAIN safe_zone :
         safe_zone[k].x < width /\ safe_zone[k].y < height

\* ------------------------------------------------------------------------
\* this step is child i's turn in the child pass, and its choose_move call
\* passes the cooldown and timing gates and finds a valid move
ChoosesMove(i) ==
  phase = "children" /\ idx = i /\ SubStep /\ child_acts(children[i])

\* the destinations choose_move gives a child run under strategy s
MovesUnder(child, s) ==
  {r.pos : r \in {m \in child_choose_move([child EXCEPT !.strategy = s]) :
                    m.kind = "move"}}

\* C24: an Unpredictable child keeps its assigned strategy for ever; its
\* current sub-strategy is always one of the other nine strategies; a move
\* it makes is the move of its current sub-strategy; and when it chooses a
\* move at or after its switch time the sub-strategy is re-rolled and the
\* next switch time is set 5 to 10 time units ahead.
C24_UnpredictableDelegation ==
  [][ \A i \in DOMAIN children :
        children[i].strategy = "UNPREDICTABLE" =>
          /\ children'[i].strategy = "UNPREDICTABLE"
          /\ children'[i].current_substrategy
               \in MovementStrategy \ {"UNPREDICTABLE"}
          /\ ChoosesMove(i) /\ children'[i].position # children[i].position =>
               children'[i].position
                 \in MovesUnder(children[i], children'[i].current_substrategy)
          /\ ChoosesMove(i) /\ now >= children[i].strategy_switch_time =>
               children'[i].strategy_switch_time \in (now + 5)..(now + 10) ]_vars

\* ------------------------------------------------------------------------
\* the distance from a cell to the nearest wall, as wall_score measures it
\* (child.py 70-77)
WallDistance(p) ==
  LET a == IF p.x < p.y THEN p.x ELSE p.y
      b == IF width - 1 - p.x < height - 1 - p.y
             THEN width - 1 - p.x ELSE height - 1 - p.y
  IN IF a < b THEN a ELSE b

\* C25: a WallHugger child with at least one valid move chooses a valid move
\* that minimises min(x, y, width-1-x, height-1-y): no valid move is strictly
\* closer to a boundary than the one it takes.
C25_WallHugger ==
  [][ \A i \in DOMAIN children :
        /\ children[i].strategy = "WALL_HUGGER"
        /\ ChoosesMove(i)
        /\ children'[i].position # children[i].position
        => /\ children'[i].position
                \in Range(child_get_valid_moves(children[i]))
           /\ \A m \in Range(child_get_valid_moves(children[i])) :
                WallDistance(children'[i].position) <= WallDistance(m) ]_vars

\* ------------------------------------------------------------------------
\* the cells holding candy, and the place of a cell in the row-major scan
\* of the grid (y outer, x inner; child.py 209-212)
CandyCells == {p \in Cells : grid[p] = CANDY}
RowOrder(p) == p.y * width + p.x

\* t is the candy nearest to the child, the first such in row-major order
IsTarget(child, t) ==
  /\ t \in CandyCells
  /\ \A c \in CandyCells :
       \/ Dist2(child.position, t) < Dist2(child.position, c)
       \/ /\ Dist2(child.position, t) = Dist2(child.position, c)
          /\ RowOrder(t) <= RowOrder(c)

\* the place of a neighbouring cell in the order down, right, up, left
MoveOrder(agent, m) ==
  CHOOSE k \in 1..4 : Neighbours(agent.position)[k] = m

\* m is the valid move nearest to t, the first such in the order down,
\* right, up, left
IsFirstBest(child, m, t) ==
  /\ m \in Range(child_get_valid_moves(child))
  /\ \A p \in Range(child_get_valid_moves(child)) :
       \/ Dist2(m, t) < Dist2(p, t)
       \/ /\ Dist2(m, t) = Dist2(p, t)
          /\ MoveOrder(child, m) <= MoveOrder(child, p)

\* C26: the move of a CandySeeker child that can act and has a valid move:
\* the target is the candy nearest to the child's cell, ties going to the
\* first in row-major order; the move is the valid move nearest to the
\* target, ties going to the first in the order down, right, up, left; with
\* no candy on the grid the move is some valid move.
C26_CandySeekerRule ==
  \A i \in DOMAIN children :
    \A child \in Seekers(i) :
      can_move(child) /\ child_get_valid_moves(child) # << >> =>
        \A r \in child_choose_move(child) :
          /\ r.kind = "move"
          /\ IF CandyCells = {}
               THEN r.pos \in Range(child_get_valid_moves(child))
               ELSE \E t \in CandyCells :
                      IsTarget(child, t) /\ IsFirstBest(child, r.pos, t)

\* the child pass is about to move a CANDY_SEEKER child that has two valid
\* moves or more and two candies nearest to it, so that the target is the
\* one coming first in row-major order
C26_Witness ==
  /\ phase = "children"
  /\ children[idx].strategy = "CANDY_SEEKER"
  /\ can_move(children[idx])
  /\ Len(child_get_valid_moves(children[idx])) >= 2
  /\ \E t, c \in CandyCells :
       /\ t # c
       /\ IsTarget(children[idx], t)
       /\ Dist2(children[idx].position, c) = Dist2(children[idx].position, t)
       /\ \E m \in Range(child_get_valid_moves(children[idx])) :
            /\ IsFirstBest(children[idx], m, t)
            /\ ~IsFirstBest(children[idx], m, c)

\* ------------------------------------------------------------------------
\* child i as a DIRECTIONAL_BIAS child: itself if that is its strategy, and
\* any child, with any preferred direction, at the moment the child pass
\* calls its choose_move
Biased(i) == {c \in Variants(i) : c.strategy = "DIRECTIONAL_BIAS"}

\* the cell one step from the child in its preferred direction
Preferred(child) ==
  Position(child.position.x + child.preferred_direction[1],
           child.position.y + child.preferred_direction[2])

\* C27: a DirectionalBias child that can act takes the cell at position +
\* preferred direction whenever that cell is a valid move, and takes another
\* valid move only when it is not; its preferred direction is one of the
\* four cardinal unit vectors and never changes.
C27_DirectionalBias ==
  [][ \A i \in DOMAIN children :
        /\ \A child \in Biased(i) :
             /\ child.preferred_direction \in Range(Directions)
             /\ can_move(child) /\ child_get_valid_moves(child) # << >> =>
                  \A r \in child_choose_move(child) :
                    /\ r.kind = "move"
                    /\ r.pos \in Range(child_get_valid_moves(child))
                    /\ Preferred(child) \in Range(child_get_valid_moves(child))
                         => r.pos = Preferred(child)
        /\ children[i].strategy = "DIRECTIONAL_BIAS" =>
             /\ children'[i].preferred_direction
                  = children[i].preferred_direction
             /\ ChoosesMove(i) =>
                  /\ children'[i].position
                       \in Range(child_get_valid_moves(children[i]))
                  /\ Preferred(children[i])
                       \in Range(child_get_valid_moves(children[i]))
                       => children'[i].position = Preferred(children[i]) ]_vars

\* the child pass has just moved a DIRECTIONAL_BIAS child one step in its
\* preferred direction although another cell next to the one it left was
\* open to it
C27_Witness ==
  /\ log # << >>
  /\ log[Len(log)][1] = "child"
  /\ LET child == children[log[Len(log)][2]]
         old == came_from.kids[log[Len(log)][2]]
     IN /\ child.strategy = "DIRECTIONAL_BIAS"
        /\ child.previous_position = old
        /\ child.position = Position(old.x + child.preferred_direction[1],
                                     old.y + child.preferred_direction[2])
        /\ \E k \in 1..4 :
             /\ Neighbours(old)[k] # child.position
             /\ InBounds(Neighbours(old)[k])
             /\ grid[Neighbours(old)[k]] \in {EMPTY, CANDY}

\* ------------------------------------------------------------------------
\* the timing gate of choose_move is closed for the child (child.py 154-157)
TooSoon(child) == now - child.last_move_time < child.move_cooldown

\* C28: for a StrategicTiming child, choose_move returns no move while
\* now - last_move_time is below the child's interval, and the child pass
\* then leaves the child as it is; last_move_time changes only on a call
\* that passes the gate and finds a valid move, and becomes the time of that
\* call; a voluntary move is therefore at least one interval after the
\* previous one; when the child acts, every valid move may be the one it
\* takes (RandomWalk) and it takes one of them.
C28_StrategicTiming ==
  [][ \A i \in DOMAIN children :
        children[i].strategy = "STRATEGIC_TIMING" =>
          /\ TooSoon(children[i]) =>
               /\ child_choose_move(children[i]) = {None}
               /\ phase = "children" /\ idx = i => children'[i] = children[i]
          /\ children'[i].last_move_time # children[i].last_move_time =>
               /\ ChoosesMove(i)
               /\ ~TooSoon(children[i])
               /\ children'[i].last_move_time = now
          /\ ChoosesMove(i) =>
               /\ now - children[i].last_move_time
                    >= children[i].move_cooldown
               /\ children'[i].last_move_time = now
               /\ children'[i].position
                    \in Range(child_get_valid_moves(children[i]))
               /\ child_choose_move(children[i])
                    = {MoveTo(p) :
                         p \in Range(child_get_valid_moves(children[i]))} ]_vars

\* a STRATEGIC_TIMING child that has moved of its own accord before, is free
\* and has a valid move has been passed over by the child pass of a tick
\* begun after that move, because less than its interval has gone by
C28_Witness ==
  /\ log # << >>
  /\ log[Len(log)][1] = "child"
  /\ LET child == children[log[Len(log)][2]]
     IN /\ child.strategy = "STRATEGIC_TIMING"
        /\ child.last_move_time > 0
        /\ child.position # child.previous_position
        /\ TickStart > child.last_move_time
        /\ TooSoon(child)
        /\ can_move(child)
        /\ child_get_valid_moves(child) # << >>

\* ------------------------------------------------------------------------
\* child j may be targeted: it can move and stands outside the safe zone
\* (teacher.py 72-78)
Targetable(j) ==
  /\ can_move(children[j])
  /\ ~is_position_safe_zone(children[j].position.x, children[j].position.y)

\* the place of a strategy in the teacher's priority list
PriorityOf(s) ==
  CHOOSE k \in DOMAIN strategy_priority : strategy_priority[k] = s

\* child j is the teacher's target: no targetable child has a strategy of
\* higher priority, none of its own strategy is nearer to the teacher, and
\* of those equally near it comes first in the collection
IsTargetOf(t, j) ==
  /\ Targetable(j)
  /\ \A m \in DOMAIN children :
       Targetable(m) =>
         \/ PriorityOf(children[j].strategy) < PriorityOf(children[m].strategy)
         \/ /\ children[j].strategy = children[m].strategy
            /\ \/ Dist2(t.position, children[j].position)
                    < Dist2(t.position, children[m].position)
               \/ /\ Dist2(t.position, children[j].position)
                       = Dist2(t.position, children[m].position)
                  /\ j <= m

\* m is the teacher's valid move nearest to cell c, the first such in the
\* order down, right, up, left
IsGreedyStep(t, m, c) ==
  /\ m \in Range(teacher_get_valid_moves(t))
  /\ \A p \in Range(teacher_get_valid_moves(t)) :
       \/ Dist2(m, c) < Dist2(p, c)
       \/ Dist2(m, c) = Dist2(p, c) /\ MoveOrder(t, m) <= MoveOrder(t, p)

\* C29: in a teacher sub-step without capture, a teacher that has a target
\* and a valid move goes to the valid move nearest to the target, the first
\* in the order down, right, up, left on ties; of two equally near children
\* of the targeted strategy the earlier in the collection is the target;
\* the step brings the teacher strictly nearer to the target whenever a
\* valid move does.
C29_GreedyStep ==
  [][ InTeacherPass /\ SubStep /\ (\A i \in DOMAIN children : ~Captured(i)) =>
        \A j \in DOMAIN children :
          IsTargetOf(teachers[idx], j)
          /\ teacher_get_valid_moves(teachers[idx]) # << >> =>
            /\ IsGreedyStep(teachers[idx], teachers'[idx].position,
                            children[j].position)
            /\ (\E p \in Range(teacher_get_valid_moves(teachers[idx])) :
                  Dist2(p, children[j].position)
                    < Dist2(teachers[idx].position, children[j].position))
               => Dist2(teachers'[idx].position, children[j].position)
                    < Dist2(teachers[idx].position, children[j].position) ]_vars

\* a teacher has just stepped nearer to its target when a second child of
\* the target's strategy, later in the collection, was targetable and
\* exactly as near
C29_Witness ==
  /\ log # << >>
  /\ log[Len(log)][1] = "teacher"
  /\ LET k == log[Len(log)][2]
         was == [teachers[k] EXCEPT !.position = came_from.staff[k]]
     IN /\ teachers[k].position # was.position
        /\ teachers[k].previous_position = was.position
        /\ \E j, m \in DOMAIN children :
             /\ j < m
             /\ IsTargetOf(was, j)
             /\ Targetable(m)
             /\ children[m].strategy = children[j].strategy
             /\ Dist2(was.position, children[m].position)
                  = Dist2(was.position, children[j].position)
             /\ Dist2(teachers[k].position, children[j].position)
                  < Dist2(was.position, children[j].position)

\* ------------------------------------------------------------------------
\* the clock has not reached the child's cooldown expiry (child.py 129-136)
OnCooldown(child) == now < child.cooldown_until

\* C30: while a child's cooldown is active, no step changes the child: the
\* child pass skips it, no teacher captures it again, and its position,
\* previous position and cooldown expiry stay as they are until the clock
\* reaches the expiry.
C30_CooldownFrame ==
  [][ \A i \in DOMAIN children :
        OnCooldown(children[i]) =>
          /\ children'[i] = children[i]
          /\ ~Captured(i)
          /\ phase = "children" /\ idx = i /\ SubStep =>
               /\ grid' = grid
               /\ log' = Append(log, << "child", i >>) ]_vars

\* a whole tick has run while a child was on cooldown: a teacher stood next
\* to it in one of its sub-steps and the child pass went past it
C30_Witness ==
  /\ TickDone
  /\ \E i \in DOMAIN children :
       /\ OnCooldown(children[i])
       /\ captured_at[i] < TickStart
       /\ << "child", i >> \in Range(log)
       /\ \E k \in DOMAIN teachers :
            /\ << "teacher", k >> \in Range(log)
            /\ is_adjacent_to(teachers[k], children[i].position)
            /\ teachers[k].position = tick_start.staff[k]

\* ------------------------------------------------------------------------
\* the cells whose content this step changes
GridDiff == {p \in Cells : grid'[p] # grid[p]}

\* C31: choose_move writes neither the grid nor any position nor another
\* agent.  In a sub-step where a child's or a teacher's choose_move is called
\* and there is no returned move to apply (it returns None or raises), the
\* grid and every position stay as they are and the only attribute that may
\* change is the calling child's own last_move_time; in a sub-step that
\* applies a returned move, the orchestrator's writes are all there is: the
\* cell left and the cell entered, the mover's position and previous
\* position, and no other agent.
C31_DecisionsReadOnly ==
  [][ SubStep =>
        /\ phase = "children" =>
             /\ teachers' = teachers
             /\ \A j \in DOMAIN children \ {idx} : children'[j] = children[j]
             /\ \/ /\ children'[idx].position = children[idx].position
                   /\ GridDiff = {}
                   /\ children'[idx]
                        \in {children[idx],
                             [children[idx] EXCEPT !.last_move_time = now]}
                \/ /\ children'[idx].position # children[idx].position
                   /\ GridDiff \subseteq {children[idx].position,
                                          children'[idx].position}
                   /\ children'[idx]
                        = move([children[idx] EXCEPT !.last_move_time = now],
                               children'[idx].position)
        /\ InTeacherPass /\ (\A i \in DOMAIN children : ~Captured(i)) =>
             /\ children' = children
             /\ \A k \in DOMAIN teachers \ {idx} : teachers'[k] = teachers[k]
             /\ \/ teachers'[idx] = teachers[idx] /\ GridDiff = {}
                \/ /\ teachers'[idx].position # teachers[idx].position
                   /\ GridDiff = {teachers[idx].position,
                                  teachers'[idx].position}
                   /\ teachers'[idx]
                        = move(teachers[idx], teachers'[idx].position) ]_vars

\* choose_move has just been called on a child, has set the child's
\* last_move_time and has raised before any move was applied: the child is
\* where it was and its cell still holds CHILD
C31_Witness ==
  /\ phase = "raised"
  /\ log[Len(log)][1] = "raise"
  /\ LET child == children[log[Len(log)][2]]
     IN /\ now > 0
        /\ child.last_move_time = now
        /\ child.position = tick_start.kids[log[Len(log)][2]]
        /\ grid[child.position] = CHILD
        /\ child_get_valid_moves(child) # << >>

\* ------------------------------------------------------------------------
\* the cells the teachers stand on
StandingCells == {teachers[k].position : k \in DOMAIN teachers}

SpannedRectangle(zone_cells) ==
  {p \in Cells : /\ \E a \in Range(zone_cells) : p.x <= a.x
                 /\ \E b \in Range(zone_cells) : p.y <= b.y}

\* C33: the safe zone is a rectangle of cells anchored at the top-left
\* corner, and no step changes its membership (capture teleports included);
\* every safe-zone cell holds SAFE_ZONE or CHILD, never EMPTY, CANDY or
\* TEACHER, and no cell outside the safe zone holds SAFE_ZONE.
C33_SafeZoneStatic ==
  /\ [](/\ Range(safe_zone) = SpannedRectangle(safe_zone)
        /\ \A p \in Cells :
             IF is_position_safe_zone(p.x, p.y)
               THEN grid[p] \in {SAFE_ZONE, CHILD}
               ELSE grid[p] # SAFE_ZONE)
  /\ [][safe_zone' = safe_zone]_vars

\* a child has just walked out of the safe zone, leaving its cell marked
\* SAFE_ZONE, while a captured child stands on a safe-zone cell marked CHILD
C33_Witness ==
  /\ log # << >>
  /\ log[Len(log)][1] = "child"
  /\ LET i == log[Len(log)][2]
     IN /\ is_position_safe_zone(came_from.kids[i].x, came_from.kids[i].y)
        /\ ~is_position_safe_zone(children[i].position.x,
                                  children[i].position.y)
        /\ children[i].previous_position = came_from.kids[i]
        /\ grid[came_from.kids[i]] = SAFE_ZONE
  /\ \E j \in DOMAIN children :
       /\ captured_at[j] # Never
       /\ ~can_move(children[j])
       /\ is_position_safe_zone(children[j].position.x, children[j].position.y)
       /\ grid[children[j].position] = CHILD

\* every teacher of the classroom: the collection update() walks and the
\* teacher a caller stored as an attribute
Staff ==
  teachers \o (IF teacher = NoAttr THEN << >> ELSE << teacher >>)

TeacherCells == {p \in Cells : grid[p] = TEACHER}

\* C34: in every reachable state the number of cells holding TEACHER equals
\* the number of teachers, each teacher's cell holds TEACHER and no two
\* teachers stand on the same cell
C34_TeacherCells ==
  /\ Cardinality(TeacherCells) = Len(Staff)
  /\ \A k \in DOMAIN Staff : grid[Staff[k].position] = TEACHER
  /\ \A k, l \in DOMAIN Staff :
       Staff[k].position = Staff[l].position => k = l

\* the second of two teachers has just stepped from a cell next to the first
\* teacher, whose cell was strictly nearer to the child it goes after than the
\* cell it took
C34_Witness ==
  /\ Len(teachers) = 2
  /\ Len(log) > 0 /\ log[Len(log)] = << "teacher", 2 >>
  /\ teachers[2].position # came_from.staff[2]
  /\ \E d \in Range(Directions) :
       teachers[1].position = Position(came_from.staff[2].x + d[1],
                                       came_from.staff[2].y + d[2])
  /\ \E j \in DOMAIN children :
       /\ children[j].cooldown_until = 0
       /\ Dist2(teachers[1].position, children[j].position)
            < Dist2(teachers[2].position, children[j].position)
  /\ C34_TeacherCells

InSafeZone(p) == is_position_safe_zone(p.x, p.y)

\* C35: children never walk into the safe zone: a child not standing in the
\* safe zone comes to stand in it only through a capture by the teacher whose
\* sub-step it is, and a child in the safe zone whose position changes ends
\* outside it
C35_NoWalkIntoSafeZone ==
  [][\A i \in DOMAIN children :
       LET before == children[i].position
           after == children'[i].position
       IN /\ (~InSafeZone(before) /\ InSafeZone(after)) =>
               /\ InTeacherPass
               /\ CaptureIndex(teachers[idx], 1) = i
               /\ after = nearest_safe(children[i])
               /\ children'[i].cooldown_until = now + CooldownDuration
          /\ (after # before /\ ~(InTeacherPass /\ log' # log)) =>
               /\ phase = "children" /\ idx = i
               /\ ~InSafeZone(after)
               /\ grid[after] \in {EMPTY, CANDY}]_vars

\* a child that a capture put on a safe-zone cell has, once its cooldown was
\* over, just stepped out of the safe zone again
C35_Witness ==
  /\ Len(log) > 0
  /\ \E i \in DOMAIN children :
       /\ log[Len(log)] = << "child", i >>
       /\ captured_at[i] # Never
       /\ children[i].cooldown_until = captured_at[i] + CooldownDuration
       /\ now >= children[i].cooldown_until
       /\ InSafeZone(came_from.kids[i])
       /\ children[i].position # came_from.kids[i]
       /\ ~InSafeZone(children[i].position)
       /\ grid[came_from.kids[i]] \in {SAFE_ZONE, CHILD}

\* child j can move and stands on a safe-zone cell next to teacher t
ExposedInSafeZone(t, j) ==
  /\ can_move(children[j])
  /\ InSafeZone(children[j].position)
  /\ is_adjacent_to(t, children[j].position)

\* teacher k has stood next to cell p since the current update() began
Camping(k, p) ==
  /\ teachers[k].position = tick_start.staff[k]
  /\ is_adjacent_to(teachers[k], p)

\* C36: every child that can move and stands on a safe-zone cell next to the
\* teacher whose sub-step it is is captured in that sub-step, keeping its cell
\* with its cooldown restarted; and a child that waited out a cooldown on a
\* safe-zone cell with a teacher camping next to it never gets to move in a
\* child pass.
C36_RecaptureBeforeMove ==
  [][/\ (InTeacherPass /\ SubStep) =>
          \A j \in DOMAIN children :
            ExposedInSafeZone(teachers[idx], j) =>
              /\ children'[j].position = children[j].position
              /\ children'[j].cooldown_until = now + CooldownDuration
     /\ \A i \in DOMAIN children :
          (/\ phase = "children" /\ idx = i /\ SubStep
           /\ captured_at[i] # Never
           /\ tick_start.kids[i] = children[i].position
           /\ InSafeZone(children[i].position)
           /\ \E k \in DOMAIN teachers : Camping(k, children[i].position))
          => children'[i].position = children[i].position]_vars

\* the children the capture loop of teacher t may take
Exposed(t) ==
  {j \in DOMAIN children :
     can_move(children[j]) /\ is_adjacent_to(t, children[j].position)}

\* child j was captured at or after the start of the current update() call
CapturedSince(j) ==
  /\ captured_at[j] # Never
  /\ captured_at[j] >= TickStart

\* C36 (amended): the child a teacher's sub-step captures is the first child
\* of the collection that can move and is next to the teacher, in the safe
\* zone or not; such a child on a safe-zone cell keeps its cell, has its
\* cooldown restarted and is not a target of choose_move. A child next to a
\* camping teacher moves in a child pass only if its cooldown ended after the
\* update() call began or an earlier child was captured during that call.
C36_FirstExposedRecaptured ==
  [][/\ (InTeacherPass /\ SubStep /\ Exposed(teachers[idx]) # {}) =>
          LET i == CHOOSE j \in Exposed(teachers[idx]) :
                     \A m \in Exposed(teachers[idx]) : j <= m
          IN /\ children'[i].cooldown_until = now + CooldownDuration
             /\ \A j \in DOMAIN children : j # i => children'[j] = children[j]
             /\ InSafeZone(children[i].position) =>
                  /\ children'[i].position = children[i].position
                  /\ grid'[children[i].position] = CHILD
                  /\ ~Targetable(i)
     /\ \A i \in DOMAIN children :
          (/\ phase = "children" /\ idx = i /\ SubStep
           /\ captured_at[i] # Never
           /\ tick_start.kids[i] = children[i].position
           /\ InSafeZone(children[i].position)
           /\ \E k \in DOMAIN teachers : Camping(k, children[i].position)
           /\ children'[i].position # children[i].position)
          => \/ children[i].cooldown_until > TickStart
             \/ \E j \in 1..(i - 1) : CapturedSince(j)]_vars

\* a teacher that has not moved since the update() call began has just
\* captured again a child that an earlier capture had put on the safe-zone
\* cell next to it and that waited out its cooldown there
C36_Witness ==
  /\ phase \in {"teachersA", "children"}
  /\ Len(log) > 0
  /\ \E k \in DOMAIN teachers, i \in DOMAIN children :
       /\ log[Len(log)] = << "teacher", k >>
       /\ Camping(k, children[i].position)
       /\ InSafeZone(children[i].position)
       /\ tick_start.kids[i] = children[i].position
       /\ children[i].previous_position # children[i].position
       /\ now >= CooldownDuration
       /\ captured_at[i] = now
       /\ children[i].cooldown_until = now + CooldownDuration
       /\ grid[children[i].position] = CHILD

\* p is a safe-zone cell with a cardinal neighbour inside the grid and
\* outside the safe zone
OnZoneBorder(p) ==
  /\ InSafeZone(p)
  /\ \E k \in DOMAIN Directions :
       LET q == Position(p.x + Directions[k][1], p.y + Directions[k][2])
       IN InBounds(q) /\ ~InSafeZone(q)

\* C37: when the safe zone does not cover the whole grid, the safe-zone cell
\* nearest to any cell outside the safe zone has a cardinal neighbour outside
\* the safe zone, and a child captured while standing outside the safe zone
\* is put on such a cell
C37_TeleportToBorder ==
  [][(InTeacherPass /\ SubStep /\ \E p \in Cells : ~InSafeZone(p)) =>
       /\ \A p \in Cells :
            ~InSafeZone(p) => OnZoneBorder(nearest_safe([position |-> p]))
       /\ \A i \in DOMAIN children :
            (/\ ~InSafeZone(children[i].position)
             /\ children'[i].position # children[i].position)
            => OnZoneBorder(children'[i].position)]_vars

\* a child captured outside a safe zone that has a cell without any neighbour
\* outside it now stands on another cell of that safe zone
C37_Witness ==
  /\ Len(log) > 0 /\ log[Len(log)][1] = "teacher"
  /\ \E c \in Range(safe_zone) : ~OnZoneBorder(c)
  /\ \E i \in DOMAIN children :
       /\ captured_at[i] = now
       /\ children[i].cooldown_until = now + CooldownDuration
       /\ children[i].position # came_from.kids[i]
       /\ ~InSafeZone(came_from.kids[i])
       /\ OnZoneBorder(children[i].position)
       /\ children[i].position # safe_zone[1]

(* ------------------- the escort draft (src/classroom.py) ------------------- *)
\* the clock horizon of the runs of the draft
DraftMaxTime == 2

\* Classroom.candy_spawn_interval of the draft
draft_candy_spawn_interval == 10

\* Child.__init__ of the draft, for a child created at clock value 0
DraftChild(pos, strategy, interval, dir) ==
  [position |-> pos, previous_position |-> pos, strategy |-> strategy,
   state |-> "FREE", last_move_time |-> 0, move_cooldown |-> interval,
   preferred_direction |-> dir]

\* Teacher.__init__ of the draft; escorting_child is the index of the child
\* in Classroom.children, 0 for None
DraftTeacher(pos) ==
  [position |-> pos, previous_position |-> pos, escorting_child |-> 0]

\* Child._get_valid_moves of the draft
draft_child_get_valid_moves(child) ==
  FilterSeq(Neighbours(child.position),
            LAMBDA p : InBounds(p) /\ grid[p] = EMPTY, 1)

\* Child._find_safest_move of the draft
draft_find_safest_move(child, possible_moves) ==
  MaxFirst(possible_moves, LAMBDA p : Dist2(p, teacher.position))

\* Child.choose_move of the draft: the set of results it may return
draft_child_choose_move(child) ==
  IF child.state = "CAPTURED" THEN {None}
  ELSE IF /\ child.strategy = "STRATEGIC_TIMING"
          /\ now - child.last_move_time < child.move_cooldown THEN {None}
  ELSE LET possible_moves == draft_child_get_valid_moves(child)
       IN IF possible_moves = << >> THEN {None}
          ELSE CASE child.strategy = "CANDY_SEEKER" ->
                      {MoveTo(p) :
                         p \in find_nearest_candy_move(child, possible_moves)}
                 [] child.strategy = "AVOIDANCE" ->
                      {MoveTo(draft_find_safest_move(child, possible_moves))}
                 [] child.strategy = "DIRECTIONAL_BIAS" ->
                      {MoveTo(p) :
                         p \in find_directional_move(child, possible_moves)}
                 [] OTHER -> {MoveTo(p) : p \in Range(possible_moves)}

\* Teacher._get_valid_moves of the draft
draft_teacher_get_valid_moves(t) ==
  FilterSeq(Neighbours(t.position),
            LAMBDA p : InBounds(p) /\ grid[p] \in {EMPTY, CHILD}, 1)

\* the free children of the draft
FreeChildren == {i \in DOMAIN children : children[i].state = "FREE"}

\* the nearest free child of _find_nearest_child_move (the first of the
\* collection among equally near ones), 0 if no child is free
draft_nearest_child(t) ==
  IF FreeChildren = {} THEN 0
  ELSE CHOOSE i \in FreeChildren :
         \A m \in FreeChildren :
           \/ Dist2(t.position, children[i].position)
                < Dist2(t.position, children[m].position)
           \/ /\ Dist2(t.position, children[i].position)
                   = Dist2(t.position, children[m].position)
              /\ i <= m

\* Teacher._find_nearest_child_move of the draft
draft_find_nearest_child_move(t) ==
  LET n == draft_nearest_child(t)
      possible_moves == draft_teacher_get_valid_moves(t)
  IN IF n = 0 THEN None
     ELSE IF Dist2(t.position, children[n].position) <= 1
       THEN MoveTo(children[n].position)
     ELSE IF possible_moves = << >> THEN None
     ELSE MoveTo(MinFirst(possible_moves,
                          LAMBDA p : Dist2(p, children[n].position)))

\* what _escort_to_safe_zone does when the teacher is at the safe zone:
\* it frees the child and returns None
Release == [kind |-> "release", pos |-> Nowhere]

\* Teacher._escort_to_safe_zone of the draft
draft_escort_to_safe_zone(t) ==
  LET nearest == MinFirst(safe_zone, LAMBDA pos : Dist2(t.position, pos))
      possible_moves == draft_teacher_get_valid_moves(t)
  IN IF Dist2(t.position, nearest) <= 1 THEN Release
     ELSE IF possible_moves = << >> THEN None
     ELSE MoveTo(MinFirst(possible_moves, LAMBDA p : Dist2(p, nearest)))

\* Teacher.choose_move of the draft
draft_teacher_choose_move(t) ==
  IF t.escorting_child # 0 THEN draft_escort_to_safe_zone(t)
  ELSE draft_find_nearest_child_move(t)

\* Classroom._update_agent_position of the draft: the grid after the move
draft_update_agent_position(agent, new_position, mark) ==
  [[grid EXCEPT ![agent.position] = EMPTY] EXCEPT ![new_position] = mark]

\* the classrooms main() and the tests of the draft build: one teacher stored
\* as Classroom.teacher, two children, and the candies the caller placed
DraftScenes ==
  { [w |-> 3, h |-> 3, size |-> << 1, 1 >>,
     cast |-> << "RANDOM_WALK", "STRATEGIC_TIMING" >>,
     c1 |-> Position(1, 1), c2 |-> Position(1, 0), tp |-> Position(2, 2),
     candy |-> {}],
    [w |-> 3, h |-> 3, size |-> << 1, 1 >>,
     cast |-> << "AVOIDANCE", "CANDY_SEEKER" >>,
     c1 |-> Position(2, 0), c2 |-> Position(0, 2), tp |-> Position(1, 1),
     candy |-> {Position(2, 2)}],
    [w |-> 3, h |-> 3, size |-> << 1, 1 >>,
     cast |-> << "DIRECTIONAL_BIAS", "RANDOM_WALK" >>,
     c1 |-> Position(2, 0), c2 |-> Position(2, 2), tp |-> Position(0, 1),
     candy |-> {Position(1, 1), Position(0, 2)}] }

DraftInit ==
  \E s \in DraftScenes :
    /\ width = s.w /\ height = s.h
    /\ safe_zone = initialize_safe_zone(s.size)
    /\ children = << DraftChild(s.c1, s.cast[1], 1, Directions[2]),
                     DraftChild(s.c2, s.cast[2], 1, Directions[1]) >>
    /\ teachers = << >>
    /\ teacher = DraftTeacher(s.tp)
    /\ grid = Populate(EmptyRoom(s.w, s.h, s.size), s.candy, {s.tp},
                       {s.c1, s.c2})
    /\ last_candy_spawn = 0
    /\ now = 0
    /\ phase = "idle" /\ idx = 0 /\ elapsed = 0
    /\ log = << >>
    /\ captured_at = << Never, Never >>
    /\ tick_start = [kids |-> << s.c1, s.c2 >>, staff |-> << s.tp >>]
    /\ came_from = [kids |-> << s.c1, s.c2 >>, staff |-> << s.tp >>]
    /\ zone = << >>

\* time passes
DraftAdvance ==
  /\ now < DraftMaxTime
  /\ phase = "idle" \/ elapsed < TickSpan
  /\ now' = now + 1
  /\ elapsed' = IF phase = "idle" THEN 0 ELSE elapsed + 1
  /\ UNCHANGED << grid, children, teachers, teacher, last_candy_spawn, phase,
                  idx, log, captured_at, tick_start, came_from >>
  /\ UNCHANGED room

\* where the draft's update() continues after child i
DraftAfter(i) ==
  IF i >= Len(children) THEN << "teacher", 0 >> ELSE << "children", i + 1 >>

\* update() of the draft is called and runs its first step, spawn_candy
draft_spawn_candy ==
  /\ phase = "idle"
  /\ IF \/ now - last_candy_spawn < draft_candy_spawn_interval
        \/ {p \in Cells : grid[p] = EMPTY} = {}
       THEN UNCHANGED << grid, last_candy_spawn >>
       ELSE \E p \in {c \in Cells : grid[c] = EMPTY} :
              /\ grid' = [grid EXCEPT ![p] = CANDY]
              /\ last_candy_spawn' = now
  /\ Goto(DraftAfter(0))
  /\ elapsed' = 0
  /\ log' = << << "spawn", 0 >> >>
  /\ UNCHANGED << children, teachers, teacher, now, captured_at, tick_start,
                  came_from >>
  /\ UNCHANGED room

\* the children loop of the draft's update(): a free child moves
DraftChildMove ==
  /\ phase = "children"
  /\ children[idx].state = "FREE"
  /\ \E r \in draft_child_choose_move(children[idx]) :
       /\ r.kind = "move"
       /\ grid' = draft_update_agent_position(children[idx], r.pos, CHILD)
       /\ children' = [children EXCEPT
                         ![idx] = move([children[idx] EXCEPT
                                          !.last_move_time = now], r.pos)]
  /\ Goto(DraftAfter(idx))
  /\ log' = Append(log, << "child", idx >>)
  /\ UNCHANGED << teachers, teacher, last_candy_spawn, now, elapsed,
                  captured_at, tick_start, came_from >>
  /\ UNCHANGED room

\* the children loop of the draft's update(): the child is CAPTURED or its
\* choose_move returns None
DraftChildSkip ==
  /\ phase = "children"
  /\ \/ children[idx].state # "FREE"
     \/ None \in draft_child_choose_move(children[idx])
  /\ Goto(DraftAfter(idx))
  /\ log' = Append(log, << "child", idx >>)
  /\ UNCHANGED << grid, children, teachers, teacher, last_candy_spawn, now,
                  elapsed, captured_at, tick_start, came_from >>
  /\ UNCHANGED room

\* the free children standing on cell p
FreeAt(p) == {i \in FreeChildren : children[i].position = p}

\* the teacher part of the draft's update() when choose_move returns a
\* position: every free child on that cell becomes CAPTURED, the last of them
\* is recorded as escorting_child, and the teacher is moved there
DraftTeacherMove ==
  /\ phase = "teacher"
  /\ LET r == draft_teacher_choose_move(teacher)
         last == CHOOSE i \in FreeAt(r.pos) : \A m \in FreeAt(r.pos) : m <= i
     IN /\ r.kind = "move"
        /\ children' = [i \in DOMAIN children |->
                          IF i \in FreeAt(r.pos)
                            THEN [children[i] EXCEPT !.state = "CAPTURED"]
                            ELSE children[i]]
        /\ grid' = draft_update_agent_position(teacher, r.pos, TEACHER)
        /\ teacher' = move([teacher EXCEPT
                              !.escorting_child =
                                 IF FreeAt(r.pos) = {} THEN @ ELSE last],
                           r.pos)
  /\ Goto(<< "idle", 0 >>)
  /\ log' = Append(log, << "teacher", 1 >>)
  /\ UNCHANGED << teachers, last_candy_spawn, now, elapsed, captured_at,
                  tick_start, came_from >>
  /\ UNCHANGED room

\* the teacher part of the draft's update() when _escort_to_safe_zone frees
\* the escorted child and returns None
DraftTeacherRelease ==
  /\ phase = "teacher"
  /\ draft_teacher_choose_move(teacher) = Release
  /\ children' = [children EXCEPT ![teacher.escorting_child].state = "FREE"]
  /\ teacher' = [teacher EXCEPT !.escorting_child = 0]
  /\ Goto(<< "idle", 0 >>)
  /\ log' = Append(log, << "release", 1 >>)
  /\ UNCHANGED << grid, teachers, last_candy_spawn, now, elapsed,
                  captured_at, tick_start, came_from >>
  /\ UNCHANGED room

\* the teacher part of the draft's update() when choose_move returns None
\* without freeing a child
DraftTeacherStay ==
  /\ phase = "teacher"
  /\ draft_teacher_choose_move(teacher) = None
  /\ Goto(<< "idle", 0 >>)
  /\ log' = Append(log, << "teacher", 1 >>)
  /\ UNCHANGED << grid, children, teachers, teacher, last_candy_spawn, now,
                  elapsed, captured_at, tick_start, came_from >>
  /\ UNCHANGED room

EscortNext ==
  \/ DraftAdvance
  \/ draft_spawn_candy
  \/ DraftChildMove
  \/ DraftChildSkip
  \/ DraftTeacherMove
  \/ DraftTeacherRelease
  \/ DraftTeacherStay

EscortSpec == DraftInit /\ [][EscortNext]_vars

\* the children the draft marks CAPTURED
CapturedChildren == {i \in DOMAIN children : children[i].state = "CAPTURED"}

\* C38: in the escort draft, when the nearest free child is at distance at
\* most 1 from the teacher, choose_move returns that child's position and the
\* teacher part of update() marks the child CAPTURED and records it as
\* escorting_child; and a CAPTURED child does not change its position.
C38_EscortCapture ==
  [][/\ (/\ phase = "teacher" /\ SubStep
         /\ draft_nearest_child(teacher) # 0
         /\ Dist2(teacher.position,
                  children[draft_nearest_child(teacher)].position) <= 1)
        => LET n == draft_nearest_child(teacher)
           IN /\ draft_teacher_choose_move(teacher)
                   = MoveTo(children[n].position)
              /\ children'[n].state = "CAPTURED"
              /\ teacher'.escorting_child = n
     /\ \A i \in CapturedChildren : children'[i].position = children[i].position]_vars

\* C39: in the escort draft at most one child is CAPTURED, and a child is
\* CAPTURED exactly when it is the teacher's escorting_child.
C39_SingleEscort ==
  /\ Cardinality(CapturedChildren) <= 1
  /\ \A i \in DOMAIN children : i \in CapturedChildren <=> teacher.escorting_child = i

====
